---------------------------- MODULE Spec2Model ----------------------------
(***************************************************************************)
(* A model of .github/scripts/run.py: the job that extracts the gpui crate *)
(* and its local dependencies from a workspace, prunes the tree, rewrites  *)
(* the root manifest, builds, and syncs the result into a mirror.          *)
(*                                                                         *)
(* Each stage of main() that the verified properties are about is a small  *)
(* state machine with its own specification; its inputs (manifests,        *)
(* trees, command outcomes) are drawn from bounded sets.                   *)
(***************************************************************************)
EXTENDS Integers, Sequences, FiniteSets, TLC

VARIABLES
    \* ---- resolve_local_dependencies (lines 62-91)
    workspace_deps,     \* root Cargo.toml [workspace.dependencies]: name -> definition
    manifests,          \* crates/<c>/Cargo.toml of every crate directory name
    dep_name_to_path,   \* line 67: dependency name -> crate directory name
    to_visit,           \* line 63: the work list (a stack)
    visited,            \* line 64
    local_crates,       \* line 65
    expanded,           \* history: the crates get_crate_dependencies was called for
    reexpanded,         \* history: some crate was expanded a second time
    rpc,                \* position in resolve_local_dependencies
    \* ---- the util_macros source patch (lines 225-256)
    util_macros_src,    \* crates/util_macros/src/util_macros.rs: exists, content
    stub_history,       \* history: the content at the start and after each run
    \* ---- the trees on disk
    output,             \* OUTPUT_DIR: path -> "dir" or a file's content
    \* ---- steps 3 to 4.5, the pruning of OUTPUT_DIR (lines 128-214)
    needed_crates,      \* line 125: the result of the resolver
    ppc,                \* position in the pruning steps
    \* ---- steps 6 and 7 of main: build, then publish (lines 302-400)
    cargo_available,    \* line 303: shutil.which("cargo")
    build_result,       \* "none", "skipped", "ok" or "failed"
    remote,             \* the files of the mirror repository's pushed branch
    head,               \* the files of HEAD in the clone at UPLOAD_DIR
    mirror,             \* UPLOAD_DIR, the working copy: path -> "dir" or content
    source_commit,      \* line 334 / 336
    git_log,            \* history: the git commands of this run's publish stage
    mpc,                \* position in main
    run,                \* which run of the job this is
    remote_at_start,    \* history: remote when this run started
    pruned,             \* history: OUTPUT_DIR as steps 1-5 left it (before line 303)
    before_reconcile,   \* history: the working copy as cloned
    synced,             \* history: the working copy after the copy pass of each run
    \* ---- step 5, the root Cargo.toml rewrite (lines 258-300)
    root_cargo,         \* the parsed document (line 122), edited in place
    cargo_file,         \* the document stored in OUTPUT_DIR/Cargo.toml
    orig_cargo,         \* history: the document as step 2 read it
    wpc                 \* position in step 5

resolverVars == <<workspace_deps, manifests, dep_name_to_path, to_visit,
                  visited, local_crates, expanded, reexpanded, rpc>>

stubVars == <<util_macros_src, stub_history>>

rewriteVars == <<root_cargo, cargo_file, orig_cargo, wpc>>

pruneVars == <<needed_crates, ppc>>
mainVars == <<cargo_available, build_result, remote, head, mirror, source_commit,
              git_log, mpc, run, remote_at_start, pruned, before_reconcile, synced>>

vars == <<resolverVars, stubVars, output, rewriteVars, pruneVars, mainVars>>

\* What the actions of one stage leave alone.
nonResolverVars == <<stubVars, output, rewriteVars, pruneVars, mainVars>>
nonStubVars     == <<resolverVars, output, rewriteVars, pruneVars, mainVars>>
nonRewriteVars  == <<resolverVars, stubVars, output, pruneVars, mainVars>>
nonPruneVars    == <<resolverVars, stubVars, rewriteVars, mainVars>>
nonMainVars     == <<resolverVars, stubVars, rewriteVars, pruneVars>>

-----------------------------------------------------------------------------
(* Generic helpers *)

Range(s) == {s[i] : i \in DOMAIN s}

\* The subsets of S with at most k elements.
RECURSIVE SubsetsUpTo(_, _)
SubsetsUpTo(S, k) ==
    IF k = 0 THEN {{}}
    ELSE LET smaller == SubsetsUpTo(S, k - 1)
         IN  smaller \cup {s \cup {x} : s \in smaller, x \in S}

\* The sequences over S without repetition, of length at most k.
RECURSIVE DistinctSeqsUpTo(_, _)
DistinctSeqsUpTo(S, k) ==
    IF k = 0 THEN {<<>>}
    ELSE LET shorter == DistinctSeqsUpTo(S, k - 1)
         IN  shorter \cup UNION {{Append(q, x) : x \in S \ Range(q)} : q \in shorter}

-----------------------------------------------------------------------------
(***************************************************************************)
(* Directory trees.  A tree maps each path below its root (a non-empty     *)
(* sequence of names) to "dir" or to the content of a regular file; the    *)
(* parent of every path in it is a directory in it.  Symbolic links are    *)
(* dereferenced when SOURCE_DIR is copied (lines 28-32), so the trees the  *)
(* later steps see hold directories and regular files only.                *)
(***************************************************************************)

IsPrefix(p, q) == Len(p) <= Len(q) /\ SubSeq(q, 1, Len(p)) = p

\* The directories above p, the root excluded.
Ancestors(p) == {SubSeq(p, 1, k) : k \in 1..(Len(p) - 1)}

\* os.path.exists, os.path.isdir, os.path.isfile of root joined with p
Exists(tree, p) == p = <<>> \/ p \in DOMAIN tree
IsDir(tree, p)  == p = <<>> \/ (p \in DOMAIN tree /\ tree[p] = "dir")
IsFile(tree, p) == p \in DOMAIN tree /\ tree[p] # "dir"

\* os.listdir
ListDir(tree, p) ==
    {q[Len(q)] : q \in {r \in DOMAIN tree : Len(r) = Len(p) + 1 /\ IsPrefix(p, r)}}

Restrict(tree, S) == [q \in S |-> tree[q]]

\* shutil.rmtree(p): p and everything below it
RmTree(tree, p) == Restrict(tree, {q \in DOMAIN tree : ~IsPrefix(p, q)})

\* os.remove(p)
RemoveFile(tree, p) == Restrict(tree, DOMAIN tree \ {p})

-----------------------------------------------------------------------------
(***************************************************************************)
(* Dependency closure resolver                                             *)
(***************************************************************************)

\* Bound: the total number of dependency entries over all crate manifests.
MaxEntries == 2

StartCrate == "gpui"                       \* line 125
CrateNames == {"gpui", "util", "collections"}
DepNames   == {"util", "collections"}
\* the order in which a manifest section lists its keys
DepOrder   == <<"util", "collections">>

\* Paths are sequences of segments ("crates/util" is <<"crates", "util">>).
CratePath(c) == <<"crates", c>>
LocalPaths   == {CratePath(c) : c \in CrateNames} \cup {<<"tooling", "perf">>}

\* A workspace dependency definition: a version string (not a table), a table
\* without a path (git / registry), or a table with a path.
VersionDefn == [isdict |-> FALSE, haspath |-> FALSE, path |-> <<>>]
TableDefn   == [isdict |-> TRUE,  haspath |-> FALSE, path |-> <<>>]
PathDefn(p) == [isdict |-> TRUE,  haspath |-> TRUE,  path |-> p]
Defns       == {VersionDefn, TableDefn} \cup {PathDefn(p) : p \in LocalPaths}

\* The sections of a crate manifest that can list dependencies.  One target
\* table ([target.'cfg(..)'.*]) is modelled.
TopSections    == <<"dependencies", "dev-dependencies", "build-dependencies">>
TargetSections == {"target.dependencies", "target.dev-dependencies",
                   "target.build-dependencies"}
Sections       == Range(TopSections) \cup TargetSections

\* A manifest file: missing, present but unreadable (open/parse fails), or a
\* set of <<section, dependency name>> entries.
ManifestStates == {"missing", "unreadable", "ok"}

\* All entries of all manifests, as <<crate, section, dependency name>>, with
\* the sections drawn from a given set.
AllEntries(sections) == SubsetsUpTo(CrateNames \X sections \X DepNames, MaxEntries)

EntriesOf(all, c) == {<<e[2], e[3]>> : e \in {x \in all : x[1] = c}}

\* Only a manifest that parses has entries.
ManifestSets(sections) ==
    {[c \in CrateNames |-> [state |-> st[c], entries |-> EntriesOf(all, c)]] :
        all \in AllEntries(sections),
        st \in [CrateNames -> ManifestStates]}

WellFormedManifests(m) ==
    \A c \in CrateNames : m[c].entries # {} => m[c].state = "ok"

\* os.path.basename(path)
Basename(path) == path[Len(path)]

\* path.startswith("crates/")
StartsWithCrates(path) == Len(path) >= 2 /\ path[1] = "crates"

\* lines 67-73
DepNameToPath(wdeps) ==
    LET local == {n \in DOMAIN wdeps :
                     /\ wdeps[n].isdict
                     /\ wdeps[n].haspath
                     /\ StartsWithCrates(wdeps[n].path)}
    IN  [n \in local |-> Basename(wdeps[n].path)]

SectionKeys(m, section) ==
    SelectSeq(DepOrder, LAMBDA d : <<section, d>> \in m.entries)

\* get_crate_dependencies, lines 41-60, for a manifest that exists and parses
GetCrateDependencies(m) ==
    IF m.state = "missing" THEN <<>>
    ELSE SectionKeys(m, "dependencies")
         \o SectionKeys(m, "dev-dependencies")
         \o SectionKeys(m, "build-dependencies")
         \o SectionKeys(m, "target.dependencies")
         \o SectionKeys(m, "target.build-dependencies")

\* lines 85-89: the for loop over deps; visited does not change inside it
RECURSIVE PushDeps(_, _, _, _)
PushDeps(deps, map, stack, seen) ==
    IF deps = <<>> THEN stack
    ELSE LET dep  == Head(deps)
             next == IF dep \in DOMAIN map /\ map[dep] \notin seen
                     THEN Append(stack, map[dep])
                     ELSE stack
         IN  PushDeps(Tail(deps), map, next, seen)

ResolverInitOver(sections) ==
    /\ workspace_deps \in [DepNames -> Defns]
    /\ manifests \in {m \in ManifestSets(sections) : WellFormedManifests(m)}
    /\ dep_name_to_path = << >>
    /\ to_visit = <<>>
    /\ visited = {}
    /\ local_crates = {}
    /\ expanded = {}
    /\ reexpanded = FALSE
    /\ rpc = "start"

\* The resolver's variables while another stage is studied.
ResolverIdle ==
    /\ workspace_deps = << >>
    /\ manifests = << >>
    /\ dep_name_to_path = << >>
    /\ to_visit = <<>>
    /\ visited = {}
    /\ local_crates = {}
    /\ expanded = {}
    /\ reexpanded = FALSE
    /\ rpc = "idle"

StubIdle ==
    /\ util_macros_src = [exists |-> FALSE, content |-> <<>>]
    /\ stub_history = <<>>

RewriteIdle ==
    /\ root_cargo = << >>
    /\ cargo_file = << >>
    /\ orig_cargo = << >>
    /\ wpc = "idle"

OutputIdle == output = << >>

PruneIdle ==
    /\ needed_crates = {}
    /\ ppc = "idle"

MainIdle ==
    /\ cargo_available = FALSE
    /\ build_result = "none"
    /\ remote = << >>
    /\ head = << >>
    /\ mirror = << >>
    /\ source_commit = "none"
    /\ git_log = <<>>
    /\ mpc = "idle"
    /\ run = 0
    /\ remote_at_start = << >>
    /\ pruned = << >>
    /\ before_reconcile = << >>
    /\ synced = <<>>

ResolverInit ==
    /\ ResolverInitOver(Sections)
    /\ StubIdle /\ RewriteIdle /\ OutputIdle /\ PruneIdle /\ MainIdle

\* For termination only the shape of the graph matters: the entries are drawn
\* from one top-level and one per-target section that the resolver reads.
GraphSections == {"dependencies", "target.build-dependencies"}

GraphInit ==
    /\ ResolverInitOver(GraphSections)
    /\ StubIdle /\ RewriteIdle /\ OutputIdle /\ PruneIdle /\ MainIdle

\* lines 63-73
ResolveStart ==
    /\ rpc = "start"
    /\ to_visit' = <<StartCrate>>
    /\ visited' = {}
    /\ local_crates' = {}
    /\ dep_name_to_path' = DepNameToPath(workspace_deps)
    /\ rpc' = "loop"
    /\ UNCHANGED <<workspace_deps, manifests, expanded, reexpanded, nonResolverVars>>

\* A resolver that forgets to mark the crate it expands.
MarkVisitedForgets(seen, crate) == seen

\* line 79: visited.add(current_crate)
MarkVisited(seen, crate) == seen \cup {crate}

\* lines 76-78: pop a crate that was already visited
SkipVisited ==
    /\ rpc = "loop"
    /\ to_visit # <<>>
    /\ to_visit[Len(to_visit)] \in visited
    /\ to_visit' = SubSeq(to_visit, 1, Len(to_visit) - 1)
    /\ UNCHANGED <<workspace_deps, manifests, dep_name_to_path, visited,
                   local_crates, expanded, reexpanded, rpc, nonResolverVars>>

\* lines 76-89: pop an unvisited crate and expand it
VisitCrate ==
    /\ rpc = "loop"
    /\ to_visit # <<>>
    /\ LET current_crate == to_visit[Len(to_visit)]
           rest          == SubSeq(to_visit, 1, Len(to_visit) - 1)
           seen          == MarkVisited(visited, current_crate)
       IN  /\ current_crate \notin visited
           /\ visited' = seen
           /\ local_crates' = local_crates \cup {current_crate}
           /\ expanded' = expanded \cup {current_crate}
           /\ reexpanded' = (reexpanded \/ current_crate \in expanded)
           /\ IF manifests[current_crate].state = "unreadable"
              THEN \* read_toml raises (line 46); nothing catches it
                   /\ rpc' = "raised"
                   /\ to_visit' = rest
              ELSE /\ rpc' = "loop"
                   /\ to_visit' = PushDeps(GetCrateDependencies(manifests[current_crate]),
                                           dep_name_to_path, rest, seen)
    /\ UNCHANGED <<workspace_deps, manifests, dep_name_to_path, nonResolverVars>>

\* line 91
ResolveReturn ==
    /\ rpc = "loop"
    /\ to_visit = <<>>
    /\ rpc' = "done"
    /\ UNCHANGED <<workspace_deps, manifests, dep_name_to_path, to_visit,
                   visited, local_crates, expanded, reexpanded, nonResolverVars>>

ResolverNext == ResolveStart \/ SkipVisited \/ VisitCrate \/ ResolveReturn

SpecResolver == ResolverInit /\ [][ResolverNext]_vars

\* The loop is sequential code: a step that can be taken is taken.
FairSpecResolver == GraphInit /\ [][ResolverNext]_vars /\ WF_vars(ResolverNext)

-----------------------------------------------------------------------------
(***************************************************************************)
(* Step 4.6: stubbing util_macros.rs (lines 225-256)                       *)
(***************************************************************************)

\* Bounds: the number of chunks a source file is built from, and how often
\* the stubbing step is run on the same file.
MaxChunks == 3
MaxStubRuns == 2

\* Text is a sequence of characters.
Marker == <<"u", "s", "e", " ", "p", "e", "r", "f", ":", ":", "*", ";">>

\* lines 230-253: a newline, the inlined module (its body is elided here),
\* then the marker line itself and a newline.
ModPerf  == <<"m", "o", "d", " ", "p", "e", "r", "f", " ", "{", "}">>
StubCode == <<"\n">> \o ModPerf \o <<"\n">> \o Marker \o <<"\n">>

\* What a source file is built from: the marker, a prefix of it, other text.
Chunks == {Marker, <<"u", "s", "e", " ">>, <<"f", "n">>, <<"\n">>}

RECURSIVE TextsUpTo(_)
TextsUpTo(k) ==
    IF k = 0 THEN {<<>>}
    ELSE LET shorter == TextsUpTo(k - 1)
         IN  shorter \cup {t \o c : t \in shorter, c \in Chunks}

\* str.replace(old, new): every non-overlapping occurrence, left to right
RECURSIVE StrReplace(_, _, _)
StrReplace(text, old, new) ==
    IF Len(text) < Len(old) THEN text
    ELSE IF SubSeq(text, 1, Len(old)) = old
         THEN new \o StrReplace(SubSeq(text, Len(old) + 1, Len(text)), old, new)
         ELSE <<Head(text)>> \o StrReplace(Tail(text), old, new)

\* line 254
StubPatch(content) == StrReplace(content, Marker, StubCode)

StubInit ==
    /\ util_macros_src \in
           {[exists |-> FALSE, content |-> <<>>]}
           \cup {[exists |-> TRUE, content |-> t] : t \in TextsUpTo(MaxChunks)}
    /\ stub_history = <<util_macros_src.content>>
    /\ ResolverIdle /\ RewriteIdle /\ OutputIdle /\ PruneIdle /\ MainIdle

\* lines 226-256: the file exists and is rewritten
StubUtilMacros ==
    /\ Len(stub_history) <= MaxStubRuns
    /\ util_macros_src.exists
    /\ util_macros_src' = [util_macros_src EXCEPT !.content = StubPatch(@)]
    /\ stub_history' = Append(stub_history, util_macros_src'.content)
    /\ UNCHANGED nonStubVars

\* line 226: the file does not exist; nothing is written
StubSkipMissing ==
    /\ Len(stub_history) <= MaxStubRuns
    /\ ~util_macros_src.exists
    /\ stub_history' = Append(stub_history, util_macros_src.content)
    /\ UNCHANGED <<util_macros_src, nonStubVars>>

StubNext == StubUtilMacros \/ StubSkipMissing

SpecStub == StubInit /\ [][StubNext]_vars

Contains(text, part) ==
    \E i \in 1..(Len(text) - Len(part) + 1) :
        SubSeq(text, i, i + Len(part) - 1) = part

\* C10: the stub patch is idempotent: a second application leaves the file as
\* the first left it, and a file without the marker is never changed.
C10_StubPatchIdempotent ==
    /\ Len(stub_history) >= 3 => stub_history[3] = stub_history[2]
    /\ (Len(stub_history) >= 2 /\ ~Contains(stub_history[1], Marker))
           => stub_history[2] = stub_history[1]

-----------------------------------------------------------------------------
(***************************************************************************)
(* Steps 3, 4 and 4.5: pruning OUTPUT_DIR (lines 128-214)                  *)
(***************************************************************************)

\* Bound: the number of files and empty directories of the tree that is pruned.
MaxLeaves == 3

\* File names are tested by their spelling.
Spelling ==
    [n \in {"README.md", "notes.txt", "lib.rs", "LICENSE-MIT", "Cargo.toml",
             "old.rs", "ci.yml", ".github", ".git", "crates",
             "target", "Cargo.lock", ".gitignore"} |->
        CASE n = "README.md"   -> <<"R", "E", "A", "D", "M", "E", ".", "m", "d">>
          [] n = "old.rs"      -> <<"o", "l", "d", ".", "r", "s">>
          [] n = "ci.yml"      -> <<"c", "i", ".", "y", "m", "l">>
          [] n = ".github"     -> <<".", "g", "i", "t", "h", "u", "b">>
          [] n = ".git"        -> <<".", "g", "i", "t">>
          [] n = "crates"      -> <<"c", "r", "a", "t", "e", "s">>
          [] n = "target"      -> <<"t", "a", "r", "g", "e", "t">>
          [] n = "Cargo.lock"  -> <<"C", "a", "r", "g", "o", ".", "l", "o", "c", "k">>
          [] n = ".gitignore"  -> <<".", "g", "i", "t", "i", "g", "n", "o", "r", "e">>
          [] n = "notes.txt"   -> <<"n", "o", "t", "e", "s", ".", "t", "x", "t">>
          [] n = "lib.rs"      -> <<"l", "i", "b", ".", "r", "s">>
          [] n = "LICENSE-MIT" -> <<"L", "I", "C", "E", "N", "S", "E", "-", "M", "I", "T">>
          [] n = "Cargo.toml"  -> <<"C", "a", "r", "g", "o", ".", "t", "o", "m", "l">>]

UpperCase == <<"A", "B", "C", "D", "E", "F", "G", "H", "I", "J", "K", "L", "M",
               "N", "O", "P", "Q", "R", "S", "T", "U", "V", "W", "X", "Y", "Z">>
LowerCase == <<"a", "b", "c", "d", "e", "f", "g", "h", "i", "j", "k", "l", "m",
               "n", "o", "p", "q", "r", "s", "t", "u", "v", "w", "x", "y", "z">>

\* str.lower
Lower(text) ==
    [i \in DOMAIN text |->
        IF \E k \in DOMAIN UpperCase : UpperCase[k] = text[i]
        THEN LowerCase[CHOOSE k \in DOMAIN UpperCase : UpperCase[k] = text[i]]
        ELSE text[i]]

\* str.startswith, str.endswith
StartsWith(text, prefix) ==
    Len(prefix) <= Len(text) /\ SubSeq(text, 1, Len(prefix)) = prefix
EndsWith(text, suffix) ==
    Len(suffix) <= Len(text)
    /\ SubSeq(text, Len(text) - Len(suffix) + 1, Len(text)) = suffix

ReadmeMd == <<"r", "e", "a", "d", "m", "e", ".", "m", "d">>
StrippedPrefixes ==
    {<<"r", "e", "a", "d", "m", "e">>,
     <<"l", "i", "c", "e", "n", "s", "e">>,
     <<"c", "h", "a", "n", "g", "e", "l", "o", "g">>,
     <<"c", "o", "n", "t", "r", "i", "b", "u", "t", "i", "n", "g">>,
     <<"d", "o", "c", "k", "e", "r", "f", "i", "l", "e">>}
StrippedSuffixes == {<<".", "m", "d">>, <<".", "t", "x", "t">>}

\* lines 161-167
MatchesStripped(lower_f) ==
    \/ \E pre \in StrippedPrefixes : StartsWith(lower_f, pre)
    \/ \E suf \in StrippedSuffixes : EndsWith(lower_f, suf)

\* lines 156-171: whether the walk removes file f found in directory root
WalkRemovesFile(root, f) ==
    LET lower_f == Lower(Spelling[f])
    IN  /\ ~(lower_f = ReadmeMd /\ StartCrate \in Range(root))
        /\ MatchesStripped(lower_f)

\* lines 140-171, for one directory of the walk: "docs" below it goes, then
\* the files that match
WalkCleanDir(tree, root) ==
    LET docs    == Append(root, "docs")
        noDocs  == IF IsDir(tree, docs) THEN RmTree(tree, docs) ELSE tree
        removed == {Append(root, f) : f \in {g \in ListDir(noDocs, root) :
                       /\ IsFile(noDocs, Append(root, g))
                       /\ WalkRemovesFile(root, g)}}
    IN  Restrict(noDocs, DOMAIN noDocs \ removed)

\* lines 139-171: os.walk(crates_dir), top down
RECURSIVE WalkClean(_, _)
RECURSIVE WalkCleanEach(_, _, _)
WalkClean(tree, root) ==
    LET here == WalkCleanDir(tree, root)
        dirs == {d \in ListDir(here, root) : IsDir(here, Append(root, d))}
    IN  WalkCleanEach(here, root, dirs)
WalkCleanEach(tree, root, dirs) ==
    IF dirs = {} THEN tree
    ELSE LET d == CHOOSE x \in dirs : TRUE
         IN  WalkCleanEach(WalkClean(tree, Append(root, d)), root, dirs \ {d})

\* lines 131-135
RemoveUnneededCrates(tree, needed) ==
    LET gone == {item \in ListDir(tree, <<"crates">>) :
                    IsDir(tree, <<"crates", item>>) /\ item \notin needed}
    IN  Restrict(tree, {q \in DOMAIN tree :
                           ~\E item \in gone : IsPrefix(<<"crates", item>>, q)})

\* lines 185-188 and 197-199
DirsToRemove == {".cargo", ".cloudflare", ".config", ".factory", ".github", ".zed",
                 "ci", "docs", "legal", "nix", "script", "assets"}
FilesToKeep  == {"Cargo.toml", "Cargo.lock", "clippy.toml", "rust-toolchain.toml",
                 "crates", "target", ".gitignore"}

\* Removing the top-level entries named in a set: a file or a whole directory
RemoveTopLevel(tree, names) ==
    Restrict(tree, {q \in DOMAIN tree : q[1] \notin names})

\* The leaves a tree to prune is built from; the directories above them are
\* added.  crates/ always exists (line 131 lists it).
PruneLeaves ==
    {<<"README.md">>, <<"Cargo.toml">>, <<"tooling", "lib.rs">>, <<"docs", "notes.txt">>,
     <<"target", "notes.txt">>,
     <<"crates", "README.md">>,
     <<"crates", "gpui", "README.md">>,
     <<"crates", "gpui", "src", "lib.rs">>,
     <<"crates", "gpui", "docs", "lib.rs">>,
     <<"crates", "util", "LICENSE-MIT">>,
     <<"crates", "util", "gpui", "README.md">>,
     <<"crates", "util", "notes.txt">>,
     <<"crates", "zed", "lib.rs">>}

TreeOfFiles(files) ==
    LET dirs == UNION {Ancestors(f) : f \in files} \cup {<<"crates">>}
    IN  [q \in files \cup dirs |-> IF q \in dirs THEN "dir" ELSE "f1"]

PruneInit ==
    /\ output \in {TreeOfFiles(L) : L \in SubsetsUpTo(PruneLeaves, MaxLeaves)}
    /\ needed_crates \in {{"gpui"}, {"gpui", "util"}}
    /\ ppc = "crates"
    /\ ResolverIdle /\ StubIdle /\ RewriteIdle /\ MainIdle

\* step 3, lines 128-171
CleanCrates ==
    /\ ppc = "crates"
    /\ output' = WalkClean(RemoveUnneededCrates(output, needed_crates), <<"crates">>)
    /\ ppc' = "tooling"
    /\ UNCHANGED <<needed_crates, nonPruneVars>>

\* step 4, lines 173-181
CleanTooling ==
    /\ ppc = "tooling"
    /\ output' = RemoveTopLevel(output, {"tooling", "extensions"})
    /\ ppc' = "nonrust"
    /\ UNCHANGED <<needed_crates, nonPruneVars>>

\* step 4.5, lines 183-214
CleanNonRust ==
    /\ ppc = "nonrust"
    /\ LET kept == RemoveTopLevel(output, DirsToRemove)
       IN  output' = RemoveTopLevel(kept, ListDir(kept, <<>>) \ FilesToKeep)
    /\ ppc' = "pruned"
    /\ UNCHANGED <<needed_crates, nonPruneVars>>

PruneNext == CleanCrates \/ CleanTooling \/ CleanNonRust

SpecPrune == PruneInit /\ [][PruneNext]_vars

\* C4: once the pruning steps have run, no file of the output tree has a
\* lowercased name with one of the stripped prefixes or suffixes, except a
\* readme.md inside crates/gpui.
C4_NoStrippedFileRemains ==
    ppc = "pruned" =>
        \A q \in DOMAIN output :
            (IsFile(output, q) /\ MatchesStripped(Lower(Spelling[q[Len(q)]])))
               => (/\ Lower(Spelling[q[Len(q)]]) = ReadmeMd
                   /\ IsPrefix(CratePath(StartCrate), q))

-----------------------------------------------------------------------------
(***************************************************************************)
(* Step 5: fixing the root Cargo.toml (lines 258-300)                      *)
(***************************************************************************)

\* Bound: the length of workspace.members.
MaxMembers == 3

MemberPaths == LocalPaths
PkgNames    == {"gpui", "collections"}

\* The pruned tree as step 5 sees it: crates/ exists, each crate path is
\* absent, a directory or a regular file; tooling/ is gone (line 177).
EntryKinds == {"absent", "dir", "file"}
CratesTree(kind) ==
    LET present == {c \in CrateNames : kind[c] # "absent"}
    IN  [p \in {<<"crates">>} \cup {CratePath(c) : c \in present} |->
            IF p = <<"crates">> \/ kind[p[2]] = "dir" THEN "dir" ELSE "f1"]
CratesTrees == {CratesTree(kind) : kind \in [CrateNames -> EntryKinds]}

\* [profile.release]: absent, without package overrides, or with overrides
\* for a set of package names.
NoProfile       == [present |-> FALSE, has_package |-> FALSE, package |-> {}]
Profile(pkgs)   == [present |-> TRUE,  has_package |-> TRUE,  package |-> pkgs]
ProfileNoPkg    == [present |-> TRUE,  has_package |-> FALSE, package |-> {}]
ProfileChoices  == {NoProfile, ProfileNoPkg, Profile(PkgNames)}

\* A root manifest without a [workspace] table.
NoWorkspace ==
    [has_workspace |-> FALSE, has_default_members |-> FALSE, default_members |-> <<>>,
     has_members |-> FALSE, members |-> <<>>,
     has_dependencies |-> FALSE, dependencies |-> << >>]

WorkspaceChoices ==
    {NoWorkspace,
     [NoWorkspace EXCEPT !.has_workspace = TRUE]}
    \cup {[has_workspace |-> TRUE,
           has_default_members |-> dm, 
           default_members |-> IF dm THEN <<CratePath("util")>> ELSE <<>>,
           has_members |-> TRUE, members |-> ms,
           has_dependencies |-> TRUE, dependencies |-> ds] :
              dm \in BOOLEAN,
              ms \in DistinctSeqsUpTo(MemberPaths, MaxMembers),
              ds \in [DepNames -> Defns]}

\* A filter with its test inverted.
FilterMembersInverted(members, tree) ==
    SelectSeq(members, LAMBDA member : ~Exists(tree, member))

\* lines 264-269
FilterMembers(members, tree) ==
    SelectSeq(members, LAMBDA member : Exists(tree, member))

\* lines 271-282
FilterDependencies(deps, tree) ==
    LET keep(defn) == ~(defn.isdict /\ defn.haspath /\ ~Exists(tree, defn.path))
    IN  [n \in {x \in DOMAIN deps : keep(deps[x])} |-> deps[n]]

\* line 292: member.endswith("/" + pkg_name) or member == pkg_name
MemberNamesPkg(member, pkg_name) ==
    member # <<>> /\ member[Len(member)] = pkg_name

\* lines 284-298
FilterOverrides(profile, members) ==
    IF profile.present /\ profile.has_package
    THEN [profile EXCEPT !.package =
             {pkg \in @ : \E i \in DOMAIN members : MemberNamesPkg(members[i], pkg)}]
    ELSE profile

\* lines 261-298 on the parsed document
Rewritten(doc, tree) ==
    LET ws == doc.workspace
        members == IF ws.has_members THEN FilterMembers(ws.members, tree) ELSE <<>>
    IN  [workspace |->
            [ws EXCEPT
                !.default_members = IF ws.has_default_members
                                    THEN <<CratePath(StartCrate)>> ELSE @,
                !.members = members,
                !.dependencies = IF ws.has_dependencies
                                 THEN FilterDependencies(@, tree) ELSE @],
         profile |-> FilterOverrides(doc.profile, members)]

\* line 261 raises KeyError without a [workspace] table; line 291 raises
\* KeyError when an override is looked at and workspace.members is missing.
RewriteKeyError(doc) ==
    \/ ~doc.workspace.has_workspace
    \/ /\ doc.profile.present /\ doc.profile.has_package /\ doc.profile.package # {}
       /\ ~doc.workspace.has_members

RewriteInit ==
    /\ output \in CratesTrees
    /\ root_cargo \in [workspace : WorkspaceChoices, profile : ProfileChoices]
    /\ cargo_file = root_cargo
    /\ orig_cargo = root_cargo
    /\ wpc = "start"
    /\ ResolverIdle /\ StubIdle /\ PruneIdle /\ MainIdle

\* lines 258-300, nothing raised: the document is edited and stored
RewriteManifest ==
    /\ wpc = "start"
    /\ ~RewriteKeyError(root_cargo)
    /\ root_cargo' = Rewritten(root_cargo, output)
    /\ cargo_file' = root_cargo'
    /\ wpc' = "done"
    /\ UNCHANGED <<orig_cargo, nonRewriteVars>>

\* lines 258-298, a KeyError ends main before write_toml (line 300)
RewriteRaises ==
    /\ wpc = "start"
    /\ RewriteKeyError(root_cargo)
    /\ wpc' = "raised"
    /\ UNCHANGED <<root_cargo, cargo_file, orig_cargo, nonRewriteVars>>

RewriteNext == RewriteManifest \/ RewriteRaises

SpecRewrite == RewriteInit /\ [][RewriteNext]_vars

IsPathDefn(defn) == defn.isdict /\ defn.haspath

\* The stored manifest against the manifest that was read: members are the
\* original members, in order, that pass `present`; every kept path
\* dependency passes `present`; a dependency that is not a path dependency,
\* or whose path passes `present`, is kept as it was.
RewrittenBy(present(_)) ==
    LET old == orig_cargo.workspace
        new == cargo_file.workspace
    IN  /\ \A i \in DOMAIN new.members : present(new.members[i])
        /\ new.members = SelectSeq(old.members, present)
        /\ \A n \in DOMAIN new.dependencies :
               IsPathDefn(new.dependencies[n]) => present(new.dependencies[n].path)
        /\ \A n \in DOMAIN old.dependencies :
               (~IsPathDefn(old.dependencies[n]) \/ present(old.dependencies[n].path))
                  => (n \in DOMAIN new.dependencies
                      /\ new.dependencies[n] = old.dependencies[n])

IsOutputDir(p)    == IsDir(output, p)
ExistsInOutput(p) == Exists(output, p)

\* C3 as stated: after the rewrite every member and every kept path
\* dependency is a directory of the pruned tree, the members are exactly the
\* original ones, in order, whose directory exists, and nothing else is dropped.
C3_MembersAreDirectories == wpc = "done" => RewrittenBy(IsOutputDir)

\* C3 as amended: the same with "exists on disk" (os.path.exists: a directory
\* or a regular file) in place of "is a directory".
C3_MembersExist == wpc = "done" => RewrittenBy(ExistsInOutput)

\* The scenario of the claim: three members, the last one pruned away, and a
\* path dependency on the pruned crate next to one on a kept crate.
C3_Witness ==
    /\ wpc = "done"
    /\ orig_cargo.workspace.members =
           <<CratePath("gpui"), CratePath("util"), CratePath("collections")>>
    /\ cargo_file.workspace.members = <<CratePath("gpui"), CratePath("util")>>
    /\ orig_cargo.workspace.dependencies["util"] = PathDefn(CratePath("util"))
    /\ orig_cargo.workspace.dependencies["collections"] = PathDefn(CratePath("collections"))
    /\ DOMAIN cargo_file.workspace.dependencies = {"util"}

-----------------------------------------------------------------------------
(***************************************************************************)
(* robust_copy_tree (lines 15-36)                                          *)
(***************************************************************************)

\* os.makedirs(p): p and the directories above it that are missing
MakeDirs(tree, p) ==
    LET new == (Ancestors(p) \cup {p}) \ DOMAIN tree
    IN  [q \in DOMAIN tree \cup new |-> IF q \in new THEN "dir" ELSE tree[q]]

\* os.makedirs(p) raises when something above p is a regular file
MakeDirsFails(tree, p) == \E a \in Ancestors(p) : IsFile(tree, a)

WriteFile(tree, p, content) ==
    [q \in DOMAIN tree \cup {p} |-> IF q = p THEN content ELSE tree[q]]

\* line 32, shutil.copy2(src/p, dst/p): into dst/p/<name> when dst/p is a
\* directory; an OSError (the place to write is a directory, or the place to
\* write it in is no directory) is caught at line 33 and the item skipped
CopyFile(src, dst, p) ==
    LET target == IF IsDir(dst, p) THEN Append(p, p[Len(p)]) ELSE p
        parent == SubSeq(target, 1, Len(target) - 1)
    IN  IF IsDir(dst, target) \/ ~IsDir(dst, parent)
        THEN dst
        ELSE WriteFile(dst, target, src[p])

\* robust_copy_tree(src/p, dst/p); called for an item of its parent, a raised
\* OSError (line 21) is caught by the parent's line 33
RECURSIVE CopyTree(_, _, _)
RECURSIVE CopyItems(_, _, _, _)
CopyTree(src, dst, p) ==
    IF ~Exists(dst, p) /\ MakeDirsFails(dst, p)
    THEN dst
    ELSE CopyItems(src, IF Exists(dst, p) THEN dst ELSE MakeDirs(dst, p),
                   p, ListDir(src, p))
CopyItems(src, dst, p, items) ==
    IF items = {} THEN dst
    ELSE LET item == CHOOSE x \in items : TRUE
             s    == Append(p, item)
             next == IF IsDir(src, s) THEN CopyTree(src, dst, s)
                     ELSE CopyFile(src, dst, s)
         IN  CopyItems(src, next, p, items \ {item})

-----------------------------------------------------------------------------
(***************************************************************************)
(* Steps 6 and 7: build and publish (lines 302-400)                        *)
(***************************************************************************)

\* Bounds: the files (and empty directories) of the pruned output tree and of
\* the mirror repository, and the number of runs of the job.
MaxOutputLeaves == 2
MaxMirrorLeaves == 2
MaxRuns == 2

\* rel_path.startswith(".github"), lines 351 and 364
RelStartsWithGithub(rel) == StartsWith(Spelling[rel[1]], Spelling[".github"])

\* lines 342-344: the walk skips a directory with .git or .github in its path
WalkSkips(root) == ".git" \in Range(root) \/ ".github" \in Range(root)

\* lines 347-357: the files of directory root that are removed
ReconcileFiles(tree, out, root) ==
    {f \in {g \in ListDir(tree, root) : IsFile(tree, Append(root, g))} :
        /\ f # ".git"
        /\ ~RelStartsWithGithub(Append(root, f))
        /\ f # "README.md"
        /\ ~Exists(out, Append(root, f))}

\* lines 360-369: the directories below root that are removed
ReconcileDirs(tree, out, root) ==
    {d \in {g \in ListDir(tree, root) : IsDir(tree, Append(root, g))} :
        /\ d # ".git"
        /\ ~RelStartsWithGithub(Append(root, d))
        /\ ~Exists(out, Append(root, d))}

\* lines 341-369: os.walk(UPLOAD_DIR), top down; a removed directory is not
\* entered
RECURSIVE Reconcile(_, _, _)
RECURSIVE ReconcileEach(_, _, _, _)
Reconcile(tree, out, root) ==
    LET gone == IF WalkSkips(root) THEN {}
                ELSE ReconcileFiles(tree, out, root) \cup ReconcileDirs(tree, out, root)
        here == Restrict(tree, {q \in DOMAIN tree :
                                   ~\E g \in gone : IsPrefix(Append(root, g), q)})
        dirs == {d \in ListDir(here, root) : IsDir(here, Append(root, d))}
    IN  ReconcileEach(here, out, root, dirs)
ReconcileEach(tree, out, root, dirs) ==
    IF dirs = {} THEN tree
    ELSE LET d == CHOOSE x \in dirs : TRUE
         IN  ReconcileEach(Reconcile(tree, out, Append(root, d)), out, root, dirs \ {d})

\* The content of a .gitignore that ignores the build directory.
IgnoresTarget == "/target"

\* git ignores p in the working copy
Ignored(tree, p) ==
    /\ IsFile(tree, <<".gitignore">>)
    /\ tree[<<".gitignore">>] = IgnoresTarget
    /\ p[1] = "target"

\* line 377, the index after git add . in a working copy with HEAD commit:
\* its regular files outside .git, the ignored ones only if HEAD has them
Staged(tree, commit) ==
    Restrict(tree, {q \in DOMAIN tree :
                       /\ IsFile(tree, q)
                       /\ q[1] # ".git"
                       /\ ~Ignored(tree, q) \/ q \in DOMAIN commit})

\* git clone: the tracked files, the directories above them, and .git
CloneOf(files) ==
    LET dirs == UNION {Ancestors(f) : f \in DOMAIN files} \cup {<<".git">>}
    IN  [q \in DOMAIN files \cup dirs |-> IF q \in dirs THEN "dir" ELSE files[q]]

\* lines 380-388: git status --porcelain prints something after git add .
StatusDirty(tree, commit) == Staged(tree, commit) # commit

\* The pruned output tree: top-level names of the allow-list (line 197),
\* README.md only below a directory named gpui (line 158); the root
\* Cargo.toml is always there (line 300 writes it).
OutputLeaves ==
    {<<".gitignore">>,
     <<"crates", "gpui", "lib.rs">>,
     <<"crates", "gpui", "README.md">>,
     <<"crates", "gpui", "assets">>,
     <<"crates", "gpui", "src", "lib.rs">>}

OutputTree(leaves) ==
    LET tree == TreeOfFiles(leaves \cup {<<"Cargo.toml">>})
    IN  [q \in DOMAIN tree |-> IF q = <<".gitignore">> THEN IgnoresTarget ELSE tree[q]]

\* What one run of cargo build leaves in a file of target/: it differs from
\* run to run (the path of the temporary directory of line 95 goes into it).
Artefacts == {"b0", "b1"}

\* line 305, cargo build -p gpui with cwd=OUTPUT_DIR: writes Cargo.lock and
\* the build directory target/ into the output tree
CargoBuildWrites(tree, b) ==
    LET lib   == <<"target", "debug", "libgpui.rlib">>
        lock  == <<"Cargo.lock">>
        dirs  == Ancestors(lib)
    IN  [q \in DOMAIN tree \cup dirs \cup {lib, lock} |->
            IF q \in dirs THEN "dir"
            ELSE IF q = lib THEN b
            ELSE IF q = lock THEN "f1"
            ELSE tree[q]]

\* The files of the mirror repository before the first run; their content is
\* not that of the output tree's files (a later run finds the mirror holding
\* the output tree's content).
MirrorLeaves ==
    {<<"README.md">>,
     <<".github", "ci.yml">>,
     <<"Cargo.toml">>,
     <<"crates", "gpui", "lib.rs">>,
     <<"crates", "gpui", "README.md">>,
     <<"crates", "gpui", "assets", "lib.rs">>,
     <<"crates", "gpui", "src">>,
     <<"crates", "x", "old.rs">>}

FilesWith(leaves, content) == [q \in leaves |-> content]

MainInit ==
    /\ output \in {OutputTree(L) : L \in SubsetsUpTo(OutputLeaves, MaxOutputLeaves)}
    /\ pruned = output
    /\ remote \in {FilesWith(L, "f0") : L \in SubsetsUpTo(MirrorLeaves, MaxMirrorLeaves)}
    /\ cargo_available \in BOOLEAN
    /\ build_result = "none"
    /\ head = << >>
    /\ mirror = << >>
    /\ source_commit = "none"
    /\ git_log = <<>>
    /\ mpc = "build"
    /\ run = 1
    /\ remote_at_start = remote
    /\ before_reconcile = << >>
    /\ synced = [r \in 1..MaxRuns |-> << >>]
    /\ ResolverIdle /\ StubIdle /\ RewriteIdle /\ PruneIdle

Logged(cmd, ok) == Append(git_log, [cmd |-> cmd, ok |-> ok])

\* A run that goes on to the publish stage whatever cargo build returned.
AfterBuildIgnoresFailure(ok) == "clone"

\* What line 305 does with the exit status of cargo build: check=True raises
\* CalledProcessError on a non-zero status, and nothing in main catches it.
AfterBuild(ok) == IF ok THEN "clone" ELSE "aborted"

\* lines 303-307; a build that fails may have written its files or not
Build ==
    /\ mpc = "build"
    /\ IF cargo_available
       THEN \E ok \in BOOLEAN, b \in Artefacts :
               /\ build_result' = (IF ok THEN "ok" ELSE "failed")
               /\ mpc' = AfterBuild(ok)
               /\ \/ output' = CargoBuildWrites(output, b)
                  \/ ~ok /\ output' = output
       ELSE /\ build_result' = "skipped"
            /\ mpc' = "clone"
            /\ output' = output
    /\ UNCHANGED <<cargo_available, run, remote_at_start, pruned, nonMainVars>>
    /\ UNCHANGED <<remote, head, mirror, source_commit, git_log, before_reconcile, synced>>

\* lines 315-320: git clone of the mirror; a failure is printed and main returns
CloneMirror ==
    /\ mpc = "clone"
    /\ \E ok \in BOOLEAN :
          /\ git_log' = Logged("clone", ok)
          /\ IF ok
             THEN /\ mirror' = CloneOf(remote)
                  /\ head' = remote
                  /\ mpc' = "revparse"
             ELSE /\ mpc' = "exited"
                  /\ UNCHANGED <<mirror, head>>
    /\ UNCHANGED <<output, cargo_available, run, remote_at_start, pruned, nonMainVars>>
    /\ UNCHANGED <<build_result, remote, source_commit, before_reconcile, synced>>

\* lines 326-337: the short hash of the source, or "unknown"
RevParse ==
    /\ mpc = "revparse"
    /\ \E ok \in BOOLEAN :
          /\ git_log' = Logged("rev-parse", ok)
          /\ source_commit' = (IF ok THEN "hash" ELSE "unknown")
    /\ mpc' = "reconcile"
    /\ UNCHANGED <<output, cargo_available, run, remote_at_start, pruned, nonMainVars>>
    /\ UNCHANGED <<build_result, remote, head, mirror, before_reconcile, synced>>

\* lines 341-369
ReconcilePass ==
    /\ mpc = "reconcile"
    /\ before_reconcile' = mirror
    /\ mirror' = Reconcile(mirror, output, <<>>)
    /\ mpc' = "copy"
    /\ UNCHANGED <<output, cargo_available, run, remote_at_start, pruned, nonMainVars>>
    /\ UNCHANGED <<build_result, remote, head, source_commit, git_log, synced>>

\* line 372
CopyPass ==
    /\ mpc = "copy"
    /\ mirror' = CopyTree(output, mirror, <<>>)
    /\ synced' = [synced EXCEPT ![run] = mirror']
    /\ mpc' = "add"
    /\ UNCHANGED <<output, cargo_available, run, remote_at_start, pruned, nonMainVars>>
    /\ UNCHANGED <<build_result, remote, head, source_commit, git_log, before_reconcile>>

\* A publish stage that goes on after a failed git command.
AfterGitIgnoresFailure(ok, next) == next

\* Where main goes after a git command of lines 377-395 that succeeded; a
\* failed one raises CalledProcessError, caught at line 399.
AfterGit(ok, next) == IF ok THEN next ELSE "exited"

\* line 377
GitAdd ==
    /\ mpc = "add"
    /\ \E ok \in BOOLEAN :
          /\ git_log' = Logged("add", ok)
          /\ mpc' = AfterGit(ok, "status")
    /\ UNCHANGED <<output, cargo_available, run, remote_at_start, pruned, nonMainVars>>
    /\ UNCHANGED <<build_result, remote, head, mirror, source_commit, before_reconcile, synced>>

\* Where main goes after git status succeeded (line 388)
AfterStatus(dirty) == IF dirty THEN "commit" ELSE "exited"

\* lines 380-397
GitStatus ==
    /\ mpc = "status"
    /\ \E ok \in BOOLEAN :
          /\ git_log' = Logged("status", ok)
          /\ mpc' = AfterGit(ok, AfterStatus(StatusDirty(mirror, head)))
    /\ UNCHANGED <<output, cargo_available, run, remote_at_start, pruned, nonMainVars>>
    /\ UNCHANGED <<build_result, remote, head, mirror, source_commit, before_reconcile, synced>>

\* lines 389-391
GitCommit ==
    /\ mpc = "commit"
    /\ \E ok \in BOOLEAN :
          /\ git_log' = Logged("commit", ok)
          /\ head' = (IF ok THEN Staged(mirror, head) ELSE head)
          /\ mpc' = AfterGit(ok, "push")
    /\ UNCHANGED <<output, cargo_available, run, remote_at_start, pruned, nonMainVars>>
    /\ UNCHANGED <<build_result, remote, mirror, source_commit, before_reconcile, synced>>

\* lines 393-395
GitPush ==
    /\ mpc = "push"
    /\ \E ok \in BOOLEAN :
          /\ git_log' = Logged("push", ok)
          /\ remote' = (IF ok THEN head ELSE remote)
    /\ mpc' = "exited"
    /\ UNCHANGED <<output, cargo_available, run, remote_at_start, pruned, nonMainVars>>
    /\ UNCHANGED <<build_result, head, mirror, source_commit, before_reconcile, synced>>

\* The job is started again on the same source revision: main starts over in
\* a new temporary directory (line 95), the mirror repository is what the
\* runs before left.
RunAgain ==
    /\ mpc \in {"exited", "aborted"}
    /\ run < MaxRuns
    /\ run' = run + 1
    /\ mpc' = "build"
    /\ build_result' = "none"
    /\ mirror' = << >>
    /\ head' = << >>
    /\ source_commit' = "none"
    /\ git_log' = <<>>
    /\ before_reconcile' = << >>
    /\ remote_at_start' = remote
    /\ output' = pruned
    /\ UNCHANGED <<cargo_available, remote, pruned, synced, nonMainVars>>

MainNext ==
    \/ Build \/ CloneMirror \/ RevParse \/ ReconcilePass \/ CopyPass
    \/ GitAdd \/ GitStatus \/ GitCommit \/ GitPush \/ RunAgain

SpecMain == MainInit /\ [][MainNext]_vars

-----------------------------------------------------------------------------
(* Properties of the build and publish stages *)

\* The git commands of this run that the publish stage is made of, in the
\* order they were run (git rev-parse reads the source checkout).
PublishLog == SelectSeq(git_log, LAMBDA e : e.cmd # "rev-parse")

GitOrder == <<"clone", "add", "status", "commit", "push">>

AfterBuildStage == {"clone", "revparse", "reconcile", "copy", "add", "status",
                    "commit", "push", "exited"}

\* C5: a build that exits non-zero aborts the run before anything of the
\* publish stage happens: no git command is run, the mirror is not cloned and
\* the mirror repository stays what it was; without cargo the build is
\* skipped and the run goes on to the publish stage, which it does not leave
\* before the clone of the mirror was tried.
C5_BuildFailureAborts ==
    /\ build_result = "failed" =>
          /\ cargo_available
          /\ mpc = "aborted"
          /\ git_log = <<>>
          /\ mirror = << >>
          /\ remote = remote_at_start
    /\ mpc = "aborted" => build_result = "failed"
    /\ (~cargo_available /\ mpc # "build") =>
          /\ build_result = "skipped"
          /\ mpc \in AfterBuildStage
          /\ mpc = "exited" => (git_log # <<>> /\ git_log[1].cmd = "clone")

C5_Witness ==
    /\ cargo_available /\ build_result = "failed" /\ mpc = "aborted"
    /\ remote # << >>

\* What the specification (4.7, step 3) calls protected, as opposed to what
\* lines 342-352 skip (WalkSkips, ReconcileFiles, ReconcileDirs): the
\* version-control entries, the CI configuration at the top, and the
\* README.md at the top.
SpecProtected(p) ==
    \/ ".git" \in Range(p)
    \/ p[1] = ".github"
    \/ p = <<"README.md">>

Kind(tree, p) == IF ~Exists(tree, p) THEN "absent"
                 ELSE IF IsDir(tree, p) THEN "dir" ELSE "file"

CopyDone == mpc \in {"add", "status", "commit", "push", "exited"} /\ synced[run] # << >>

\* C6: after the reconciliation pass and the copy pass every path that is
\* not protected is in the mirror working copy exactly if it is in the
\* pruned output tree, as the same kind of entry.
C6_MirrorMatchesOutput ==
    CopyDone =>
        \A p \in (DOMAIN mirror \cup DOMAIN pruned) :
            ~SpecProtected(p) => Kind(mirror, p) = Kind(pruned, p)

\* C7: the reconciliation pass removes from the mirror working copy exactly
\* the entries that are not protected and have no entry of the same path in
\* the pruned output tree.
C7_ReconcileDeletesAbsent ==
    mpc = "copy" =>
        \A p \in DOMAIN before_reconcile :
            p \in DOMAIN mirror <=> (SpecProtected(p) \/ Exists(pruned, p))

\* The run works on a mirror repository that holds what the run before
\* synced, from the same pruned output tree.
SyncedBefore ==
    /\ run >= 2
    /\ synced[run - 1] # << >>
    /\ remote_at_start = Staged(synced[run - 1], remote_at_start)

\* C8: a run on a mirror that the run before synced from the same pruned
\* output tree leaves the working copy after its copy pass as the run before
\* left it, finds nothing to commit, and neither commits nor pushes.
C8_SecondRunNoChanges ==
    SyncedBefore =>
        /\ synced[run] # << >> => synced[run] = synced[run - 1]
        /\ mpc \in {"status", "commit", "push"} => ~StatusDirty(mirror, head)
        /\ \A i \in DOMAIN git_log : git_log[i].cmd \notin {"commit", "push"}
        /\ remote = remote_at_start

\* C9: the git commands of a run are a prefix of clone, add, status, commit,
\* push, each run only after the one before succeeded; commit (and so push)
\* is run only when the working copy differs from what was cloned; a failed
\* git command ends the run, and only a failed build aborts it.
C9_GitStepOrder ==
    /\ Len(PublishLog) <= Len(GitOrder)
    /\ \A i \in DOMAIN PublishLog :
          /\ PublishLog[i].cmd = GitOrder[i]
          /\ i > 1 => PublishLog[i - 1].ok
    /\ Len(PublishLog) >= 4 => Staged(mirror, remote_at_start) # remote_at_start
    /\ mpc = "commit" => StatusDirty(mirror, head)
    /\ (PublishLog # <<>> /\ ~PublishLog[Len(PublishLog)].ok) => mpc = "exited"
    /\ mpc = "aborted" => git_log = <<>>

C9_Witness ==
    /\ Len(PublishLog) = 5
    /\ \A i \in 1..5 : PublishLog[i].ok
    /\ mpc = "exited"
    /\ remote = Staged(mirror, remote_at_start)
    /\ remote # remote_at_start

-----------------------------------------------------------------------------
(* Properties of the resolver *)

\* The local-path edges of the dependency graph: crate c depends on the crate
\* directory a dependency name maps to, for a name listed in any section.
LocalTargets(c, sections) ==
    LET map == DepNameToPath(workspace_deps)
    IN  {map[e[2]] : e \in {x \in manifests[c].entries :
                                x[1] \in sections /\ x[2] \in DOMAIN map}}

RECURSIVE ReachableFrom(_, _)
ReachableFrom(S, sections) ==
    LET next == S \cup UNION {LocalTargets(c, sections) : c \in S \cap CrateNames}
    IN  IF next = S THEN S ELSE ReachableFrom(next, sections)

Terminated == rpc \in {"done", "raised"}

\* C1: when resolve_local_dependencies returns, its result is exactly the start
\* crate plus every crate reachable from it through local-path dependency
\* edges taken from all dependency sections of the manifests, the per-target
\* variants of dependencies, dev-dependencies and build-dependencies included.
C1_ClosureOverAllSections ==
    rpc = "done" => local_crates = ReachableFrom({StartCrate}, Sections)

\* C2 as stated: no crate is expanded twice, the resolver never raises (a
\* missing or an unreadable manifest makes the crate a leaf), and the loop
\* is never stuck before it returns.
C2_NeverRaises ==
    /\ ~reexpanded
    /\ rpc # "raised"
    /\ (rpc # "done" => ENABLED ResolverNext)

\* C2 as amended: the loop always terminates, cycles and self-dependencies
\* included, expanding each crate at most once; a crate whose manifest is
\* missing is a leaf (nothing is pushed for it and nothing is raised); the
\* resolver raises exactly when it expands a crate whose manifest exists but
\* cannot be read.
C2_TerminatesMissingIsLeaf ==
    /\ <>Terminated
    /\ [](~reexpanded)
    /\ [](rpc = "raised" <=> \E c \in expanded : manifests[c].state = "unreadable")
    /\ [][(/\ rpc = "loop"
           /\ to_visit # <<>>
           /\ to_visit[Len(to_visit)] \notin visited
           /\ manifests[to_visit[Len(to_visit)]].state = "missing")
          => (/\ rpc' = "loop"
              /\ to_visit' = SubSeq(to_visit, 1, Len(to_visit) - 1))]_vars

\* The resolver returned after walking a self-dependency of the start crate
\* and a crate whose manifest is missing.
C2_Witness ==
    /\ rpc = "done"
    /\ StartCrate \in LocalTargets(StartCrate, Sections)
    /\ \E c \in expanded : manifests[c].state = "missing"

=============================================================================
